---- MODULE Spec2Model ----
(***************************************************************************)
(* Model of the Prometheus text encoder (serializeToPrometheus and its     *)
(* helpers) and of parseCommaSeparated.                                    *)
(*                                                                         *)
(* Strings are sequences of one-character strings, so that escaping,       *)
(* joining, splitting and prefix tests are computed character by           *)
(* character.  JavaScript objects and arrays live in a heap of numbered    *)
(* cells, so that aliasing and in-place mutation are expressible.          *)
(***************************************************************************)
EXTENDS Integers, Sequences, FiniteSets

VARIABLES
    metrics,        \* argument: array of references to MetricDefinition objects
    denylist,       \* options.denylist ?? new Set()
    excludeLabels,  \* options.excludeLabels ?? new Set()
    heap,           \* defs / arrs / samples / objs cells
    grouped,        \* Map<string, MetricDefinition>, in insertion order
    i,              \* position of the first loop in metrics
    j,              \* position of the second loop in grouped
    lines,          \* const lines: string[]
    out,            \* the returned string
    pc,             \* "idle" | "run" | "done"
    value,          \* escapeLabel: argument
    escaped,        \* escapeLabel: returned string
    block,          \* formatLabels: the label block of { k: value }
    epc,            \* "idle" | "escape" | "format" | "done"
    pvalue,         \* parseCommaSeparated: argument
    presult,        \* parseCommaSeparated: returned Set
    ppc             \* "idle" | "call" | "done"

vars == <<metrics, denylist, excludeLabels, heap, grouped, i, j, lines, out, pc,
          value, escaped, block, epc, pvalue, presult, ppc>>

serVars == <<metrics, denylist, excludeLabels, heap, grouped, i, j, lines, out, pc>>
escVars == <<value, escaped, block, epc>>
parseVars == <<pvalue, presult, ppc>>

-----------------------------------------------------------------------------
(* Bounds *)

MaxMetrics == 3
MaxLabelLen == 4
MaxInputLen == 4

-----------------------------------------------------------------------------
(* Characters and strings *)

BS == "\\"
DQ == "\""
NL == "\n"

RECURSIVE Concat(_)
Concat(ss) == IF ss = <<>> THEN <<>> ELSE Head(ss) \o Concat(Tail(ss))

StartsWith(s, p) == Len(s) >= Len(p) /\ SubSeq(s, 1, Len(p)) = p

StrsUpTo(alphabet, n) == UNION {[1..k -> alphabet] : k \in 0..n}

\* String.prototype.replace with a global one-character pattern
ReplaceAll(s, ch, rep) ==
    Concat([k \in 1..Len(s) |-> IF s[k] = ch THEN rep ELSE <<s[k]>>])

\* Array.prototype.join
RECURSIVE Join(_, _)
Join(ls, sep) ==
    IF ls = <<>> THEN <<>>
    ELSE IF Len(ls) = 1 THEN ls[1]
    ELSE ls[1] \o sep \o Join(Tail(ls), sep)

\* String.prototype.split with a one-character separator: the pieces between
\* the occurrences of the separator, Len(at) + 1 of them
Split(s, sep) ==
    LET at == SelectSeq([k \in 1..Len(s) |-> k], LAMBDA k : s[k] = sep)
    IN [m \in 1..(Len(at) + 1) |->
          SubSeq(s, IF m = 1 THEN 1 ELSE at[m - 1] + 1,
                    IF m = Len(at) + 1 THEN Len(s) ELSE at[m] - 1)]

-----------------------------------------------------------------------------
(* Numbers: NaN, the infinities, and finite integers (neg with n = 0 is -0) *)

NaN == [k |-> "NaN", neg |-> FALSE, n |-> 0]
PosInf == [k |-> "Inf", neg |-> FALSE, n |-> 0]
NegInf == [k |-> "Inf", neg |-> TRUE, n |-> 0]
Num(n) == [k |-> "Num", neg |-> n < 0, n |-> IF n < 0 THEN 0 - n ELSE n]
NegZero == [k |-> "Num", neg |-> TRUE, n |-> 0]

Digit(d) == <<"0", "1", "2", "3", "4", "5", "6", "7", "8", "9">>[d + 1]

RECURSIVE Digits(_)
Digits(n) == IF n < 10 THEN <<Digit(n)>> ELSE Append(Digits(n \div 10), Digit(n % 10))

\* String(value) for a finite integer: -0 prints as "0"
NumberToString(v) ==
    IF v.n = 0 THEN <<"0">>
    ELSE (IF v.neg THEN <<"-">> ELSE <<>>) \o Digits(v.n)

IsNaN(v) == v.k = "NaN"
IsFinite(v) == v.k = "Num"
GreaterThanZero(v) == v.k # "NaN" /\ ~v.neg /\ (v.k = "Inf" \/ v.n > 0)

formatValueSwapped(v) ==
    IF IsNaN(v) THEN <<"N", "a", "N">>
    ELSE IF ~IsFinite(v)
         THEN (IF GreaterThanZero(v) THEN <<"-", "I", "n", "f">> ELSE <<"+", "I", "n", "f">>)
    ELSE NumberToString(v)

formatValue(v) ==
    IF IsNaN(v) THEN <<"N", "a", "N">>
    ELSE IF ~IsFinite(v)
         THEN (IF GreaterThanZero(v) THEN <<"+", "I", "n", "f">> ELSE <<"-", "I", "n", "f">>)
    ELSE NumberToString(v)

-----------------------------------------------------------------------------
(* Escaping and label formatting *)

escapeHelp(help) == ReplaceAll(ReplaceAll(help, BS, <<BS, BS>>), NL, <<BS, "n">>)

escapeLabelQuoteFirst(v) ==
    ReplaceAll(ReplaceAll(ReplaceAll(v, DQ, <<BS, DQ>>), BS, <<BS, BS>>), NL, <<BS, "n">>)

escapeLabel(v) ==
    ReplaceAll(ReplaceAll(ReplaceAll(v, BS, <<BS, BS>>), DQ, <<BS, DQ>>), NL, <<BS, "n">>)

\* labels: the entries of the object, as a sequence of <<key, value>>
formatLabels(labels) ==
    IF Len(labels) = 0 THEN <<>>
    ELSE <<"{">>
         \o Join([k \in 1..Len(labels) |->
                    labels[k][1] \o <<"=", DQ>> \o escapeLabel(labels[k][2]) \o <<DQ>>],
                 <<",">>)
         \o <<"}">>

-----------------------------------------------------------------------------
(* The heap.  A reference is an index into one of the four cell sequences:  *)
(*   defs    MetricDefinition objects  [name, help, type, values: array ref] *)
(*   arrs    arrays of sample references                                     *)
(*   samples sample objects            [labels: object ref, value]           *)
(*   objs    label objects: their entries <<key, value>> in property order   *)

Str_a == <<"a">>
Str_ab == <<"a", "b">>
Str_c == <<"c">>
Key_k == <<"k">>
Key_id == <<"i", "d">>
Key_zid == <<"z", "i", "d">>
Counter == <<"c", "o", "u", "n", "t", "e", "r">>
Gauge == <<"g", "a", "u", "g", "e">>

\* The caller's objects: what the arguments of a call may refer to.  Label
\* object 2 is shared by two samples, sample 1 by two arrays, array 1 by two
\* definitions.
Heap0 ==
    [objs |-> << << <<Key_k, <<"x">> >>, <<Key_id, <<"1">> >> >>,
                 << >>,
                 << <<Key_id, <<"q", DQ, NL, BS>> >>, <<Key_zid, <<"z">> >> >>,
                 << <<Key_zid, <<"i", "d", "=">> >> >>,
                 << <<Key_k, <<"y">> >> >> >>,
     samples |-> << [labels |-> 1, value |-> Num(42)],
                    [labels |-> 2, value |-> NaN],
                    [labels |-> 3, value |-> PosInf],
                    [labels |-> 4, value |-> NegInf],
                    [labels |-> 5, value |-> Num(-705)],
                    [labels |-> 2, value |-> NegZero] >>,
     arrs |-> << <<1, 2>>, <<3>>, <<4, 5>>, << >>, <<6, 1>> >>,
     defs |-> << [name |-> Str_a, help |-> <<"h", BS, NL>>, type |-> Counter, values |-> 1],
                 [name |-> Str_a, help |-> <<"g">>, type |-> Gauge, values |-> 2],
                 [name |-> Str_ab, help |-> <<"a", " ", "b">>, type |-> Gauge, values |-> 3],
                 [name |-> Str_c, help |-> << >>, type |-> Counter, values |-> 4],
                 [name |-> Str_c, help |-> <<"s">>, type |-> Gauge, values |-> 5],
                 [name |-> Str_ab, help |-> <<"h">>, type |-> Counter, values |-> 1] >>]

DefRefs == 1..Len(Heap0.defs)
Denylists == {{}, {Str_a}, {Str_c}, {Str_a, Str_c}}
ExcludeSets == {{}, {Key_id}, {Key_k, Key_id}}

\* The part of a heap that belongs to the caller
CallerPart(h) ==
    [objs |-> SubSeq(h.objs, 1, Len(Heap0.objs)),
     samples |-> SubSeq(h.samples, 1, Len(Heap0.samples)),
     arrs |-> SubSeq(h.arrs, 1, Len(Heap0.arrs)),
     defs |-> SubSeq(h.defs, 1, Len(Heap0.defs))]

-----------------------------------------------------------------------------
(* serializeToPrometheus: label filtering *)

\* Deletes the excluded keys from the object it is given
filterLabelsInPlace(h, lid, exclude) ==
    [heap |-> [h EXCEPT !.objs[lid] = SelectSeq(h.objs[lid], LAMBDA e : e[1] \notin exclude)],
     ref |-> lid]

\* Copies every entry, excluded or not
filterLabelsKeepAll(h, lid, exclude) ==
    [heap |-> [h EXCEPT !.objs = Append(h.objs, h.objs[lid])],
     ref |-> Len(h.objs) + 1]

\* Returns the heap with the new object, and the reference to it
filterLabels(h, lid, exclude) ==
    [heap |-> [h EXCEPT !.objs = Append(h.objs, SelectSeq(h.objs[lid], LAMBDA e : e[1] \notin exclude))],
     ref |-> Len(h.objs) + 1]

\* metric.values.map((v) => ({ ...v, labels: filterLabels(v.labels, excludeLabels) })),
\* without the allocation of the resulting array: the heap and the new sample references
RECURSIVE MapFiltered(_, _, _)
MapFiltered(h, sids, exclude) ==
    IF sids = <<>> THEN [heap |-> h, refs |-> <<>>]
    ELSE LET fl == filterLabels(h, h.samples[Head(sids)].labels, exclude)
             h1 == [fl.heap EXCEPT !.samples =
                       Append(fl.heap.samples,
                              [h.samples[Head(sids)] EXCEPT !.labels = fl.ref])]
             rest == MapFiltered(h1, Tail(sids), exclude)
         IN [heap |-> rest.heap, refs |-> <<Len(fl.heap.samples) + 1>> \o rest.refs]

\* const filteredValues = excludeLabels.size > 0 ? metric.values.map(...) : metric.values
filteredValues(h, aid, exclude) ==
    IF Cardinality(exclude) > 0
    THEN LET m == MapFiltered(h, h.arrs[aid], exclude)
         IN [heap |-> [m.heap EXCEPT !.arrs = Append(m.heap.arrs, m.refs)],
             ref |-> Len(m.heap.arrs) + 1]
    ELSE [heap |-> h, ref |-> aid]

-----------------------------------------------------------------------------
(* serializeToPrometheus: grouping *)

\* A lookup that never finds the entry
GroupedIndexNone(g, name) == 0

\* grouped.get(name): the position of the entry, 0 when there is none
GroupedIndex(g, name) ==
    IF \E p \in 1..Len(g) : g[p].name = name
    THEN CHOOSE p \in 1..Len(g) : g[p].name = name
    ELSE 0

\* Merge keeping the later definition's fields
mergedLastWins(h, existing, metric, fv) ==
    [h EXCEPT !.arrs = Append(h.arrs, h.arrs[h.defs[existing].values] \o h.arrs[fv]),
              !.defs = Append(h.defs, [h.defs[metric] EXCEPT !.values = Len(h.arrs) + 1])]

\* Merge putting the later definition's samples first
mergedPrepend(h, existing, metric, fv) ==
    [h EXCEPT !.arrs = Append(h.arrs, h.arrs[fv] \o h.arrs[h.defs[existing].values]),
              !.defs = Append(h.defs, [h.defs[existing] EXCEPT !.values = Len(h.arrs) + 1])]

\* { ...existing, values: [...existing.values, ...filteredValues] }
merged(h, existing, metric, fv) ==
    [h EXCEPT !.arrs = Append(h.arrs, h.arrs[h.defs[existing].values] \o h.arrs[fv]),
              !.defs = Append(h.defs, [h.defs[existing] EXCEPT !.values = Len(h.arrs) + 1])]

\* { ...metric, values: [...filteredValues] }
fresh(h, metric, fv) ==
    [h EXCEPT !.arrs = Append(h.arrs, h.arrs[fv]),
              !.defs = Append(h.defs, [h.defs[metric] EXCEPT !.values = Len(h.arrs) + 1])]

\* The denylist test that lets every metric through
deniedNever(name, deny) == FALSE

\* denylist.has(metric.name)
denied(name, deny) == name \in deny

\* grouped.set(name, ...) as a delete followed by an insert: the entry moves to the end
setExistingAtEnd(g, p, ref) ==
    SelectSeq(g, LAMBDA e : e.name # g[p].name) \o <<[name |-> g[p].name, ref |-> ref]>>

\* grouped.set(name, ...) on a key the Map holds: the entry keeps its position
setExisting(g, p, ref) == [g EXCEPT ![p].ref = ref]

\* if (denylist.has(metric.name)) continue
SkipDenied ==
    /\ pc = "run"
    /\ i <= Len(metrics)
    /\ denied(heap.defs[metrics[i]].name, denylist)
    /\ i' = i + 1
    /\ UNCHANGED <<metrics, denylist, excludeLabels, heap, grouped, j, lines, out, pc>>

\* One iteration of the first loop for a metric whose name is not yet in grouped
GroupNew ==
    /\ pc = "run"
    /\ i <= Len(metrics)
    /\ LET metric == metrics[i]
           name == heap.defs[metric].name
           fv == filteredValues(heap, heap.defs[metric].values, excludeLabels)
       IN /\ ~denied(name, denylist)
          /\ GroupedIndex(grouped, name) = 0
          /\ heap' = fresh(fv.heap, metric, fv.ref)
          /\ grouped' = Append(grouped, [name |-> name, ref |-> Len(fv.heap.defs) + 1])
    /\ i' = i + 1
    /\ UNCHANGED <<metrics, denylist, excludeLabels, j, lines, out, pc>>

\* One iteration of the first loop for a metric whose name is already in grouped
GroupMerge ==
    /\ pc = "run"
    /\ i <= Len(metrics)
    /\ LET metric == metrics[i]
           name == heap.defs[metric].name
           fv == filteredValues(heap, heap.defs[metric].values, excludeLabels)
           p == GroupedIndex(grouped, name)
       IN /\ ~denied(name, denylist)
          /\ p # 0
          /\ heap' = merged(fv.heap, grouped[p].ref, metric, fv.ref)
          /\ grouped' = setExisting(grouped, p, Len(fv.heap.defs) + 1)
    /\ i' = i + 1
    /\ UNCHANGED <<metrics, denylist, excludeLabels, j, lines, out, pc>>

-----------------------------------------------------------------------------
(* serializeToPrometheus: emission *)

HelpLine(name, help) == <<"#", " ", "H", "E", "L", "P", " ">> \o name \o <<" ">> \o escapeHelp(help)
TypeLine(name, type) == <<"#", " ", "T", "Y", "P", "E", " ">> \o name \o <<" ">> \o type

\* `${name}${labelStr} ${formatValue(value)}`
ValueLine(h, name, sid) ==
    name \o formatLabels(h.objs[h.samples[sid].labels]) \o <<" ">> \o formatValue(h.samples[sid].value)

\* One iteration of the second loop
EmitMetric ==
    /\ pc = "run"
    /\ i > Len(metrics)
    /\ j <= Len(grouped)
    /\ LET name == grouped[j].name
           metric == heap.defs[grouped[j].ref]
           vals == heap.arrs[metric.values]
       IN lines' = lines
                   \o <<HelpLine(name, metric.help), TypeLine(name, metric.type)>>
                   \o [k \in 1..Len(vals) |-> ValueLine(heap, name, vals[k])]
                   \o << <<>> >>
    /\ j' = j + 1
    /\ UNCHANGED <<metrics, denylist, excludeLabels, heap, grouped, i, out, pc>>

\* return lines.join("\n")
Return ==
    /\ pc = "run"
    /\ i > Len(metrics)
    /\ j > Len(grouped)
    /\ out' = Join(lines, <<NL>>)
    /\ pc' = "done"
    /\ UNCHANGED <<metrics, denylist, excludeLabels, heap, grouped, i, j, lines>>

-----------------------------------------------------------------------------
(* Specification of one call of serializeToPrometheus *)

EscIdle == value = <<>> /\ escaped = <<>> /\ block = <<>> /\ epc = "idle"
ParseIdle == pvalue = [def |-> FALSE, s |-> <<>>] /\ presult = {} /\ ppc = "idle"

Init ==
    /\ metrics \in UNION {[1..n -> DefRefs] : n \in 0..MaxMetrics}
    /\ denylist \in Denylists
    /\ excludeLabels \in ExcludeSets
    /\ heap = Heap0
    /\ grouped = <<>>
    /\ i = 1
    /\ j = 1
    /\ lines = <<>>
    /\ out = <<>>
    /\ pc = "run"
    /\ EscIdle
    /\ ParseIdle

Next ==
    \/ (SkipDenied /\ UNCHANGED <<escVars, parseVars>>)
    \/ (GroupNew /\ UNCHANGED <<escVars, parseVars>>)
    \/ (GroupMerge /\ UNCHANGED <<escVars, parseVars>>)
    \/ (EmitMetric /\ UNCHANGED <<escVars, parseVars>>)
    \/ (Return /\ UNCHANGED <<escVars, parseVars>>)

Spec == Init /\ [][Next]_vars

-----------------------------------------------------------------------------
(* Specification of escapeLabel and of formatLabels on one label *)

LabelChars == {BS, DQ, NL, "n"}

InitEscape ==
    /\ value \in StrsUpTo(LabelChars, MaxLabelLen)
    /\ escaped = <<>>
    /\ block = <<>>
    /\ epc = "escape"
    /\ metrics = <<>> /\ denylist = {} /\ excludeLabels = {} /\ heap = Heap0
    /\ grouped = <<>> /\ i = 1 /\ j = 1 /\ lines = <<>> /\ out = <<>> /\ pc = "idle"
    /\ ParseIdle

CallEscapeLabel ==
    /\ epc = "escape"
    /\ escaped' = escapeLabel(value)
    /\ epc' = "format"
    /\ UNCHANGED <<value, block>>

CallFormatLabels ==
    /\ epc = "format"
    /\ block' = formatLabels(<< <<Key_k, value>> >>)
    /\ epc' = "done"
    /\ UNCHANGED <<value, escaped>>

NextEscape ==
    \/ (CallEscapeLabel /\ UNCHANGED <<serVars, parseVars>>)
    \/ (CallFormatLabels /\ UNCHANGED <<serVars, parseVars>>)

SpecEscape == InitEscape /\ [][NextEscape]_vars

-----------------------------------------------------------------------------
(* parseCommaSeparated *)

IsWhiteSpace(c) == c \in {" ", "\t", NL, "\r"}

RECURSIVE TrimStart(_)
TrimStart(s) == IF s # <<>> /\ IsWhiteSpace(Head(s)) THEN TrimStart(Tail(s)) ELSE s

RECURSIVE TrimEnd(_)
TrimEnd(s) ==
    IF s # <<>> /\ IsWhiteSpace(s[Len(s)]) THEN TrimEnd(SubSeq(s, 1, Len(s) - 1)) ELSE s

\* String.prototype.trim
Trim(s) == TrimEnd(TrimStart(s))

\* The tokens without the filter on their length
tokensUnfiltered(s) ==
    LET parts == Split(s, ",")
        trimmed == [k \in 1..Len(parts) |-> Trim(parts[k])]
    IN {trimmed[k] : k \in 1..Len(trimmed)}

\* new Set(value.split(",").map((s) => s.trim()).filter((s) => s.length > 0))
tokens(s) ==
    LET parts == Split(s, ",")
        trimmed == [k \in 1..Len(parts) |-> Trim(parts[k])]
        kept == SelectSeq(trimmed, LAMBDA t : Len(t) > 0)
    IN {kept[k] : k \in 1..Len(kept)}

Undefined == [def |-> FALSE, s |-> <<>>]
InputChars == {",", " ", "\t", "a"}

InitParse ==
    /\ pvalue \in {Undefined} \cup {[def |-> TRUE, s |-> x] : x \in StrsUpTo(InputChars, MaxInputLen)}
    /\ presult = {}
    /\ ppc = "call"
    /\ metrics = <<>> /\ denylist = {} /\ excludeLabels = {} /\ heap = Heap0
    /\ grouped = <<>> /\ i = 1 /\ j = 1 /\ lines = <<>> /\ out = <<>> /\ pc = "idle"
    /\ EscIdle

\* if (!value || value.trim() === "") return new Set()
ReturnEmptySet ==
    /\ ppc = "call"
    /\ (~pvalue.def \/ pvalue.s = <<>> \/ Trim(pvalue.s) = <<>>)
    /\ presult' = {}
    /\ ppc' = "done"
    /\ UNCHANGED pvalue

ReturnTokens ==
    /\ ppc = "call"
    /\ ~(~pvalue.def \/ pvalue.s = <<>> \/ Trim(pvalue.s) = <<>>)
    /\ presult' = tokens(pvalue.s)
    /\ ppc' = "done"
    /\ UNCHANGED pvalue

NextParse ==
    \/ (ReturnEmptySet /\ UNCHANGED <<serVars, escVars>>)
    \/ (ReturnTokens /\ UNCHANGED <<serVars, escVars>>)

SpecParse == InitParse /\ [][NextParse]_vars

-----------------------------------------------------------------------------
(* Reading a finished call: the lines of the output, and the arguments as   *)
(* the caller passed them                                                    *)

Done == pc = "done"

OutLines == Split(out, NL)

HelpPrefix(name) == <<"#", " ", "H", "E", "L", "P", " ">> \o name \o <<" ">>
TypePrefix(name) == <<"#", " ", "T", "Y", "P", "E", " ">> \o name \o <<" ">>
IsHelpLine(line) == StartsWith(line, <<"#", " ", "H", "E", "L", "P", " ">>)
IsTypeLine(line) == StartsWith(line, <<"#", " ", "T", "Y", "P", "E", " ">>)
IsValueLineOf(line, name) ==
    StartsWith(line, name \o <<"{">>) \/ StartsWith(line, name \o <<" ">>)

HelpLines(name) == SelectSeq(OutLines, LAMBDA l : StartsWith(l, HelpPrefix(name)))
TypeLines(name) == SelectSeq(OutLines, LAMBDA l : StartsWith(l, TypePrefix(name)))
ValueLines(name) == SelectSeq(OutLines, LAMBDA l : IsValueLineOf(l, name))
After(line, prefix) == SubSeq(line, Len(prefix) + 1, Len(line))

LastIndexOf(s, ch) ==
    IF \E q \in 1..Len(s) : s[q] = ch
    THEN CHOOSE q \in 1..Len(s) : s[q] = ch /\ \A r \in (q + 1)..Len(s) : s[r] # ch
    ELSE 0

\* The value token of a value line: what follows its last space
ValueToken(line) == SubSeq(line, LastIndexOf(line, " ") + 1, Len(line))

\* The label block of a value line of name: from the brace after the name to the last brace
BlockOf(line, name) ==
    IF Len(line) > Len(name) /\ line[Len(name) + 1] = "{"
    THEN SubSeq(line, Len(name) + 1, LastIndexOf(line, "}"))
    ELSE <<>>

\* The closing quote of a label value that starts at p: a backslash escapes the next character
RECURSIVE ValueEnd(_, _)
ValueEnd(s, p) ==
    IF p > Len(s) THEN p
    ELSE IF s[p] = BS THEN ValueEnd(s, p + 2)
    ELSE IF s[p] = DQ THEN p
    ELSE ValueEnd(s, p + 1)

KeyEnd(s, p) == CHOOSE q \in p..(Len(s) + 1) :
                    /\ (q = Len(s) + 1 \/ s[q] = "=")
                    /\ \A r \in p..(q - 1) : s[r] # "="

\* The entries <<key, escaped value>> of the text between the braces, read from position p
RECURSIVE EntriesFrom(_, _)
EntriesFrom(s, p) ==
    IF p > Len(s) THEN <<>>
    ELSE LET q == KeyEnd(s, p)
             e == ValueEnd(s, q + 2)
         IN << <<SubSeq(s, p, q - 1), SubSeq(s, q + 2, e - 1)>> >> \o EntriesFrom(s, e + 2)

ParseBlock(b) == IF b = <<>> THEN <<>> ELSE EntriesFrom(SubSeq(b, 2, Len(b) - 1), 1)

Contains(s, sub) == \E q \in 1..(Len(s) - Len(sub) + 1) : SubSeq(s, q, q + Len(sub) - 1) = sub

InputDef(k) == Heap0.defs[metrics[k]]
InputNames == {InputDef(k).name : k \in 1..Len(metrics)}
KeptNames == InputNames \ denylist
NoDenied == InputNames \cap denylist = {}

\* The positions in metrics of the definitions of name, in input order
PositionsOf(name) ==
    SelectSeq([k \in 1..Len(metrics) |-> k], LAMBDA k : InputDef(k).name = name)
FirstDef(name) == InputDef(PositionsOf(name)[1])
LastDef(name) == InputDef(PositionsOf(name)[Len(PositionsOf(name))])

InputSamples(k) ==
    LET arr == Heap0.arrs[InputDef(k).values]
    IN [v \in 1..Len(arr) |-> Heap0.samples[arr[v]]]

\* The samples of all definitions of name, in input order
SamplesOf(name) ==
    LET ps == PositionsOf(name)
    IN Concat([m \in 1..Len(ps) |-> InputSamples(ps[m])])

KeptEntries(sample) ==
    SelectSeq(Heap0.objs[sample.labels], LAMBDA e : e[1] \notin excludeLabels)

\* The distinct names that are not denied, in the order of their first occurrence
RECURSIVE FirstSeen(_, _)
FirstSeen(k, seen) ==
    IF k > Len(metrics) THEN <<>>
    ELSE IF InputDef(k).name \in seen \cup denylist THEN FirstSeen(k + 1, seen)
    ELSE <<InputDef(k).name>> \o FirstSeen(k + 1, seen \cup {InputDef(k).name})

Order == FirstSeen(1, {})

-----------------------------------------------------------------------------
(* C1 *)

\* C1 as stated: the HELP and TYPE lines of a repeated name carry the help text
\* and the type of the last definition of that name in input order.
C1_LastDefinitionWins ==
    Done => \A name \in KeptNames :
        /\ Len(HelpLines(name)) = 1
        /\ Len(TypeLines(name)) = 1
        /\ After(HelpLines(name)[1], HelpPrefix(name)) = escapeHelp(LastDef(name).help)
        /\ After(TypeLines(name)[1], TypePrefix(name)) = LastDef(name).type

\* C1 amended: the single HELP line and the single TYPE line of a name carry
\* the help text and the type of the first non-denied definition of that name
\* in input order; later definitions of the name contribute samples only.
C1_FirstDefinitionWins ==
    Done => \A name \in KeptNames :
        /\ Len(HelpLines(name)) = 1
        /\ Len(TypeLines(name)) = 1
        /\ After(HelpLines(name)[1], HelpPrefix(name)) = escapeHelp(FirstDef(name).help)
        /\ After(TypeLines(name)[1], TypePrefix(name)) = FirstDef(name).type

C1_Witness ==
    /\ Done
    /\ \E name \in KeptNames :
        /\ Len(PositionsOf(name)) >= 2
        /\ FirstDef(name).help # LastDef(name).help
        /\ FirstDef(name).type # LastDef(name).type

-----------------------------------------------------------------------------
(* C2 *)

\* C2: the value lines of a name that is not denied are the label-filtered
\* samples of all definitions of that name, in input order of the definitions
\* and in the original order within each: none lost, duplicated or reordered.
C2_SamplesConcatenated ==
    Done => \A name \in KeptNames :
        LET vl == ValueLines(name)
            es == SamplesOf(name)
        IN /\ Len(vl) = Len(es)
           /\ \A k \in 1..Len(es) :
                vl[k] = name \o formatLabels(KeptEntries(es[k])) \o <<" ">>
                        \o formatValue(es[k].value)

C2_Witness ==
    /\ Done
    /\ \E name \in KeptNames :
        /\ Len(PositionsOf(name)) >= 2
        /\ Len(InputSamples(PositionsOf(name)[1])) >= 1
        /\ Len(InputSamples(PositionsOf(name)[2])) >= 1
        /\ InputSamples(PositionsOf(name)[1]) # InputSamples(PositionsOf(name)[2])
        /\ Len(ValueLines(name)) >= 3

-----------------------------------------------------------------------------
(* C3 *)

\* C3: with no denied names, the output has exactly one HELP line and exactly
\* one TYPE line per distinct name, and as many TYPE lines as distinct names.
C3_OneHeaderPerName ==
    (Done /\ NoDenied) =>
        /\ Len(SelectSeq(OutLines, IsTypeLine)) = Cardinality(InputNames)
        /\ Len(SelectSeq(OutLines, IsHelpLine)) = Cardinality(InputNames)
        /\ \A name \in InputNames :
            Len(HelpLines(name)) = 1 /\ Len(TypeLines(name)) = 1

C3_Witness ==
    /\ Done
    /\ NoDenied
    /\ Cardinality(InputNames) >= 2
    /\ Len(metrics) > Cardinality(InputNames)

-----------------------------------------------------------------------------
(* C4 *)

\* C4: for a name in the denylist, no output line begins with the name followed
\* by "{" or a space, and no HELP or TYPE line is a header of that name.
C4_DeniedAbsent ==
    Done => \A name \in denylist :
        /\ ValueLines(name) = <<>>
        /\ HelpLines(name) = <<>>
        /\ TypeLines(name) = <<>>

C4_Witness ==
    /\ Done
    /\ Str_a \in denylist
    /\ Str_a \in InputNames
    /\ Str_ab \in InputNames
    /\ ValueLines(Str_ab) # <<>>

-----------------------------------------------------------------------------
(* C5 *)

-----------------------------------------------------------------------------
(* C6 *)

\* The line at which the block of the m-th distinct name starts
RECURSIVE BlockStart(_)
BlockStart(m) ==
    IF m = 1 THEN 1 ELSE BlockStart(m - 1) + 3 + Len(SamplesOf(Order[m - 1]))

\* C6: the output is one block per distinct name that is not denied, in the
\* order of the names' first occurrence; each block is the HELP line, the TYPE
\* line, the value lines and one empty line, joined by "\n"; an output that is
\* not empty ends with that one blank entry, and an empty input gives "".
C6_BlocksInFirstSeenOrder ==
    Done =>
        /\ (metrics = <<>> => out = <<>>)
        /\ (Order = <<>> => out = <<>>)
        /\ (Order # <<>> =>
              /\ Len(OutLines) = BlockStart(Len(Order) + 1) - 1
              /\ \A m \in 1..Len(Order) :
                    LET name == Order[m]
                        s == BlockStart(m)
                        n == Len(SamplesOf(name))
                    IN /\ StartsWith(OutLines[s], HelpPrefix(name))
                       /\ StartsWith(OutLines[s + 1], TypePrefix(name))
                       /\ \A v \in 1..n : IsValueLineOf(OutLines[s + 1 + v], name)
                       /\ OutLines[s + 2 + n] = <<>>
              /\ out[Len(out)] = NL
              /\ out[Len(out) - 1] # NL)

C6_Witness ==
    /\ Done
    /\ Len(Order) = 2
    /\ Len(metrics) = 3
    /\ InputDef(3).name = Order[1]
    /\ InputDef(2).name = Order[2]
    /\ SamplesOf(Order[1]) # <<>>

-----------------------------------------------------------------------------
(* C7 *)

\* The image of one character under the escaping
EscapedChar(c) ==
    IF c = BS THEN <<BS, BS>>
    ELSE IF c = DQ THEN <<BS, DQ>>
    ELSE IF c = NL THEN <<BS, "n">>
    ELSE <<c>>

CharWise(v) == Concat([k \in 1..Len(v) |-> EscapedChar(v[k])])

\* C7: the three sequential substitutions of escapeLabel give what mapping each
\* character on its own gives (no backslash is escaped twice), and the label
\* block formatLabels emits for the value holds it so escaped, with no raw newline.
C7_EscapeIsCharWise ==
    /\ (epc \in {"format", "done"} => escaped = CharWise(value))
    /\ (epc = "done" =>
          /\ block = <<"{">> \o Key_k \o <<"=", DQ>> \o CharWise(value) \o <<DQ, "}">>
          /\ \A q \in 1..Len(block) : block[q] # NL)

C7_Witness ==
    /\ epc = "done"
    /\ \E a, b, c \in 1..Len(value) :
        a < b /\ b < c /\ value[a] = DQ /\ value[b] = BS /\ value[c] = NL

-----------------------------------------------------------------------------
(* C8 *)

NonFiniteTokens == {<<"N", "a", "N">>, <<"+", "I", "n", "f">>, <<"-", "I", "n", "f">>}

DigitValue(c) == CHOOSE d \in 0..9 : Digit(d) = c
IsDigit(c) == \E d \in 0..9 : Digit(d) = c

RECURSIVE ParseNat(_)
ParseNat(t) ==
    IF Len(t) = 1 THEN DigitValue(t[1])
    ELSE 10 * ParseNat(SubSeq(t, 1, Len(t) - 1)) + DigitValue(t[Len(t)])

\* t is the decimal numeral of the integer z: an optional "-", digits, no
\* leading zero, and no sign on zero
IsNumeralOf(t, z) ==
    LET ds == IF t # <<>> /\ t[1] = "-" THEN Tail(t) ELSE t
    IN /\ ds # <<>>
       /\ \A q \in 1..Len(ds) : IsDigit(ds[q])
       /\ (Len(ds) > 1 => ds[1] # "0")
       /\ (t[1] = "-" => ParseNat(ds) # 0)
       /\ (IF t[1] = "-" THEN 0 - ParseNat(ds) ELSE ParseNat(ds)) = z

\* C8: the value token of a sample's line is NaN for NaN, +Inf for positive
\* infinity, -Inf for negative infinity and the decimal numeral for a finite
\* value; every sample has its line, whatever its value.
C8_ValueTokens ==
    Done => \A name \in KeptNames :
        LET vl == ValueLines(name)
            es == SamplesOf(name)
        IN /\ Len(vl) = Len(es)
           /\ \A k \in 1..Len(es) :
                LET t == ValueToken(vl[k])
                    v == es[k].value
                IN /\ (v = NaN => t = <<"N", "a", "N">>)
                   /\ (v = PosInf => t = <<"+", "I", "n", "f">>)
                   /\ (v = NegInf => t = <<"-", "I", "n", "f">>)
                   /\ (v.k = "Num" =>
                         /\ t \notin NonFiniteTokens
                         /\ IsNumeralOf(t, IF v.neg THEN 0 - v.n ELSE v.n))

C8_Witness ==
    /\ Done
    /\ \E a \in 1..Len(OutLines) : ValueToken(OutLines[a]) = <<"N", "a", "N">>
    /\ \E b \in 1..Len(OutLines) : ValueToken(OutLines[b]) = <<"+", "I", "n", "f">>
    /\ \E c \in 1..Len(OutLines) : ValueToken(OutLines[c]) = <<"-", "I", "n", "f">>
    /\ \E d \in 1..Len(OutLines) : ValueToken(OutLines[d]) = <<"-", "7", "0", "5">>

-----------------------------------------------------------------------------
(* C9 *)

\* C9: no step of serializeToPrometheus changes the metrics array, a
\* definition, a values array, a sample, a labels object or an option set of
\* the caller.
C9_ArgumentsUnchanged ==
    [][/\ CallerPart(heap') = CallerPart(heap)
       /\ metrics' = metrics
       /\ denylist' = denylist
       /\ excludeLabels' = excludeLabels]_vars

C9_Witness ==
    /\ Done
    /\ excludeLabels # {}
    /\ Len(heap.objs) > Len(Heap0.objs)
    /\ \E name \in KeptNames : Len(PositionsOf(name)) >= 2
    /\ \E name \in KeptNames : \E k \in 1..Len(SamplesOf(name)) :
         KeptEntries(SamplesOf(name)[k]) # Heap0.objs[SamplesOf(name)[k].labels]

-----------------------------------------------------------------------------
(* C10 *)

\* s[a..b] is a token of s: it has no comma and no white space at either end,
\* and only white space lies between it and the nearest comma (or end) each side
IsTokenAt(s, a, b) ==
    /\ \A x \in a..b : s[x] # ","
    /\ ~IsWhiteSpace(s[a])
    /\ ~IsWhiteSpace(s[b])
    /\ \E l \in 1..a :
        /\ (l = 1 \/ s[l - 1] = ",")
        /\ \A x \in l..(a - 1) : IsWhiteSpace(s[x])
    /\ \E r \in b..Len(s) :
        /\ (r = Len(s) \/ s[r + 1] = ",")
        /\ \A x \in (b + 1)..r : IsWhiteSpace(s[x])

TokensOf(s) ==
    {SubSeq(s, ab[1], ab[2]) :
        ab \in {x \in (1..Len(s)) \X (1..Len(s)) : x[1] <= x[2] /\ IsTokenAt(s, x[1], x[2])}}

\* C10: the result is exactly the set of trimmed, non-empty tokens of the
\* input; it never holds the empty string or a token with white space at an
\* end; an undefined, empty or all-white-space input gives the empty set.
C10_TrimmedNonEmptyTokens ==
    ppc = "done" =>
        /\ presult = (IF pvalue.def THEN TokensOf(pvalue.s) ELSE {})
        /\ \A t \in presult : t # <<>> /\ ~IsWhiteSpace(t[1]) /\ ~IsWhiteSpace(t[Len(t)])
        /\ ((~pvalue.def \/ \A x \in 1..Len(pvalue.s) : IsWhiteSpace(pvalue.s[x]))
              => presult = {})

C10_Witness ==
    /\ ppc = "done"
    /\ pvalue.def
    /\ pvalue.s = <<"a", ",", " ", "a">>
    /\ presult = {<<"a">>}

====
